---- MODULE Spec2Model ----
(***************************************************************************)
(* Matchmaking and match settlement of turnix-firebase.                    *)
(*                                                                         *)
(*   match_making.ts    onQueueUpdated : the pairing transaction           *)
(*   complete_match.ts  completeMatch  : explicit settlement (transaction) *)
(*                      onMatchDeleted : settlement on removal (batch)     *)
(*   notify_pushover.ts notifyUsersOnQueueJoin : the join alert            *)
(*                                                                         *)
(* Documents are optional values: <<>> is an absent document or field,     *)
(* <<v>> a present one.  The winner field is a string: "undefined" (the    *)
(* field was never written), "null" (the draw sentinel) or a user id.      *)
(* Time is in seconds.  A transaction is a sequence of reads followed by a *)
(* commit that applies the writes only if what was read is unchanged and   *)
(* otherwise runs the transaction function again; version[m] stands for    *)
(* the update time the store keeps per document and compares at commit.    *)
(***************************************************************************)
EXTENDS Integers, Sequences, FiniteSets, TLC

\* ---------------------------------------------------------------- bounds
MaxSettleTicks == 2
MaxProgress == 1
MaxCalls == 2
MaxDeliveries == 1
TickSeconds == 15
MaxPairTicks == 3
MaxTriggers == 2
MaxInvocations == 3
RandomGrain == 283
MaxRedraws == 2
NotifyTickSeconds == 2
MaxNotifyTicks == 3
MaxNotifiers == 2
MaxClients == 2
MaxBatches == 2

\* ------------------------------------------------------- program constants
START_DELAY_SECONDS == 5
QUEUE_TTL_SECONDS == 45
EXCLUDED_LEVELS_LIST == {"cls:37", "cls:51"}
PUZZLE_SPAN == 283
PUZZLE_BASE == 20
RATE_LIMIT_SECONDS == 5
BATCH_SIZE == 400

\* ------------------------------------------------------------ value space
None == <<>>
Some(v) == <<v>>
IsSome(o) == o # <<>>

Users == {"ua", "ub", "uc"}
SettleUsers == {"ua", "ub"}
ProcIds == 1 .. MaxInvocations
PairProcIds == 1 .. MaxTriggers
MatchIds == ProcIds
SettledIds == {1}
CallIds == 1 .. MaxCalls
NotifierIds == 1 .. MaxNotifiers
ClientIds == 1 .. MaxClients

VARIABLES now, matches, version, history, calls, removed, delRuns,
          queue, events, procs, recentJoins, notifiers, alerts,
          clients, dispatch

vars == <<now, matches, version, history, calls, removed, delRuns,
          queue, events, procs, recentJoins, notifiers, alerts,
          clients, dispatch>>
settleVars == <<history, calls, removed, delRuns>>
pairVars == <<queue, events, procs>>
sendVars == <<clients, dispatch>>
notifyVars == <<recentJoins, notifiers, alerts, sendVars>>

\* A JavaScript truthiness test of the winner field: undefined and null are
\* falsy, a user id (a non-empty string) is truthy.
Truthy(winner) == winner \notin {"undefined", "null"}

\* playerState?.finished_at || null
finishedAtOf(playerState) ==
  IF IsSome(playerState) THEN playerState[1].finished_at ELSE None

\* playerState?.progress || 0
progressOf(playerState) ==
  IF IsSome(playerState) /\ IsSome(playerState[1].progress)
  THEN playerState[1].progress[1]
  ELSE 0

\* The document the pairing transaction writes with tx.set.
newMatch(userId, partnerId, createdAt, startAt, puzzleId) ==
  [ players |-> <<userId, partnerId>>,
    puzzle_id |-> puzzleId,
    player_states |->
      [u \in {userId, partnerId} |-> Some([progress |-> None, finished_at |-> None])],
    start_at |-> Some(startAt),
    created_at |-> createdAt,
    winner |-> "undefined",
    isDraw |-> None,
    completed_at |-> None ]

\* ------------------------------------------------------- winner resolution
playerResults(players, player_states) ==
  [i \in 1 .. Len(players) |->
     [ playerId |-> players[i],
       finishedAt |-> finishedAtOf(player_states[players[i]]),
       progress |-> progressOf(player_states[players[i]]) ]]

\* Mutant: the comparator looks at progress only.
compareResults_progressOnly(a, b) == b.progress - a.progress

\* The comparator handed to Array.prototype.sort.
compareResults(a, b) ==
  IF IsSome(a.finishedAt) /\ IsSome(b.finishedAt)
  THEN a.finishedAt[1] - b.finishedAt[1]
  ELSE IF IsSome(a.finishedAt) /\ ~IsSome(b.finishedAt) THEN -1
  ELSE IF ~IsSome(a.finishedAt) /\ IsSome(b.finishedAt) THEN 1
  ELSE b.progress - a.progress

\* Mutant: the sort moves the second element up when it compares greater.
sortResults_laterFirst(pr) ==
  IF Len(pr) = 2 /\ compareResults(pr[2], pr[1]) > 0
  THEN <<pr[2], pr[1]>>
  ELSE pr

\* Mutant: an unstable sort, the second element also moves up on a tie.
sortResults_swapOnTie(pr) ==
  IF Len(pr) = 2 /\ compareResults(pr[2], pr[1]) <= 0
  THEN <<pr[2], pr[1]>>
  ELSE pr

\* Array.prototype.sort on the two results: a stable insertion, the second
\* element moves in front of the first only when it compares strictly less.
sortResults(pr) ==
  IF Len(pr) = 2 /\ compareResults(pr[2], pr[1]) < 0
  THEN <<pr[2], pr[1]>>
  ELSE pr

\* Mutant: equal progress is not a draw, the first player wins.
winnerPlayerId_noDraw(firstPlayer, secondPlayer) ==
  IF ~IsSome(secondPlayer.finishedAt) /\ ~IsSome(firstPlayer.finishedAt)
     /\ firstPlayer.progress < secondPlayer.progress
  THEN secondPlayer.playerId
  ELSE firstPlayer.playerId

\* winnerPlayerId after the if / else-if chain; it starts as null.
winnerPlayerId(firstPlayer, secondPlayer) ==
  IF IsSome(firstPlayer.finishedAt) /\ ~IsSome(secondPlayer.finishedAt)
  THEN firstPlayer.playerId
  ELSE IF ~IsSome(firstPlayer.finishedAt) /\ ~IsSome(secondPlayer.finishedAt)
  THEN IF firstPlayer.progress > secondPlayer.progress THEN firstPlayer.playerId
       ELSE IF firstPlayer.progress = secondPlayer.progress THEN "null"
       ELSE secondPlayer.playerId
  ELSE IF IsSome(firstPlayer.finishedAt) /\ IsSome(secondPlayer.finishedAt)
  THEN firstPlayer.playerId
  ELSE "null"

determineWinner(players, player_states) ==
  LET sorted == sortResults(playerResults(players, player_states))
  IN  winnerPlayerId(sorted[1], sorted[2])

\* ------------------------------------------------------------- history
\* Mutant: the duration is not clamped at 0.
matchDuration_unclamped(completedAt, start_at) ==
  IF ~IsSome(start_at) THEN 0 ELSE completedAt - start_at[1]

\* try { completedAt.toMillis() - start_at.toMillis() } with the clamp; a
\* missing start_at throws and the catch sets 0.
matchDuration(completedAt, start_at) ==
  IF ~IsSome(start_at) THEN 0
  ELSE IF completedAt - start_at[1] < 0 THEN 0
  ELSE completedAt - start_at[1]

\* Mutant: isWinner is not tested, every player of a decided match wins.
resultOf_neverLoss(playerId, winner) ==
  IF winner = "null" THEN "draw" ELSE "win"

\* isDraw ? "draw" : isWinner ? "win" : "loss"
resultOf(playerId, winner) ==
  IF winner = "null" THEN "draw"
  ELSE IF playerId = winner THEN "win"
  ELSE "loss"

\* players.find((p) => p !== playerId); None when there is no other player.
opponentIdOf(players, playerId) ==
  LET idx == {i \in 1 .. Len(players) : players[i] # playerId}
  IN  IF idx = {} THEN None
      ELSE Some(players[CHOOSE i \in idx : \A j \in idx : i <= j])

historyEntry(matchId, doc, playerId, opponentId, winner, completedAt) ==
  [ match_id |-> matchId,
    player_id |-> playerId,
    opponent_id |-> opponentId,
    puzzle_id |-> doc.puzzle_id,
    result |-> resultOf(playerId, winner),
    player_progress |-> progressOf(doc.player_states[playerId]),
    opponent_progress |-> progressOf(doc.player_states[opponentId]),
    player_finished_at |-> finishedAtOf(doc.player_states[playerId]),
    opponent_finished_at |-> finishedAtOf(doc.player_states[opponentId]),
    match_duration |-> matchDuration(completedAt, doc.start_at),
    completed_at |-> completedAt,
    created_at |-> doc.created_at ]

RECURSIVE historyEntriesFrom(_, _, _, _, _)
\* The for loop over players, from index i on: one entry per player that has
\* an opponent, in the order of the players list.
historyEntriesFrom(i, matchId, doc, winner, completedAt) ==
  IF i > Len(doc.players) THEN <<>>
  ELSE LET playerId == doc.players[i]
           opp == opponentIdOf(doc.players, playerId)
           rest == historyEntriesFrom(i + 1, matchId, doc, winner, completedAt)
       IN  IF ~IsSome(opp) THEN rest
           ELSE <<historyEntry(matchId, doc, playerId, opp[1], winner, completedAt)>>
                \o rest

historyEntries(matchId, doc, winner, completedAt) ==
  historyEntriesFrom(1, matchId, doc, winner, completedAt)

\* ------------------------------------------------------------ settlement
idleCall ==
  [ pc |-> "idle", matchId |-> None, authenticated |-> FALSE,
    readVersion |-> 0, t |-> 0, winner |-> "undefined" ]

idleProc ==
  [ pc |-> "idle", userId |-> "", cutoff |-> 0, createdAt |-> 0,
    candidates |-> <<>>, partner |-> "", puzzleId |-> "" ]

idleNotifier ==
  [ pc |-> "idle", userId |-> "", handledAt |-> 0,
    notifyAllTokens |-> <<>>, foregroundOnlyTokens |-> <<>> ]

\* The fcm_token of the device whose clients document is c.
tokenOf(c) == "token:" \o ToString(c)

\* One device per user, each with a token and no preference stored.
registeredClients ==
  [c \in ClientIds |->
     Some([ user_id |-> IF c = 1 THEN "ua" ELSE IF c = 2 THEN "ub" ELSE "uc",
            fcm_token |-> Some(tokenOf(c)),
            notify_background_queue_joins |-> None,
            notify_foreground_queue_joins |-> None ])]

idleDispatch ==
  [ pc |-> "idle", tokens |-> <<>>, batches |-> <<>>, results |-> <<>>,
    success |-> 0, failure |-> 0 ]

Init ==
  /\ now = 0
  /\ matches = [m \in MatchIds |-> None]
  /\ version = [m \in MatchIds |-> 0]
  /\ history = <<>>
  /\ calls = [c \in CallIds |-> idleCall]
  /\ removed = [m \in MatchIds |-> None]
  /\ delRuns = [m \in MatchIds |-> 0]
  /\ queue = [u \in Users |-> None]
  /\ events = {}
  /\ procs = [p \in ProcIds |-> idleProc]
  /\ recentJoins = [u \in Users |-> None]
  /\ notifiers = [n \in NotifierIds |-> idleNotifier]
  /\ alerts = <<>>
  /\ clients = registeredClients
  /\ dispatch = idleDispatch

Tick(maxTicks) ==
  /\ now < maxTicks * TickSeconds
  /\ now' = now + TickSeconds

TickSettle ==
  /\ Tick(MaxSettleTicks)
  /\ UNCHANGED <<matches, version, settleVars, pairVars,
               notifyVars>>

\* One write of the Match document m (doc = None deletes it).
WriteMatch(m, doc) ==
  /\ matches' = [matches EXCEPT ![m] = doc]
  /\ version' = [version EXCEPT ![m] = @ + 1]

\* A Match document as the pairing transaction writes it (degrade = "none"),
\* or as another writer of the collection left it, without start_at or without
\* the second player's state: the two cases the settlement code defends
\* against.
matchDocument(userId, partnerId, degrade, createdAt) ==
  LET doc == newMatch(userId, partnerId, createdAt,
                      createdAt + START_DELAY_SECONDS, "cls:20")
  IN  IF degrade = "start_at" THEN [doc EXCEPT !.start_at = None]
      ELSE IF degrade = "state"
      THEN [doc EXCEPT !.player_states[partnerId] = None]
      ELSE doc

Degrades == {"none", "start_at", "state"}

\* A Match document appears in the store.
MatchWritten(m, userId, partnerId, degrade) ==
  /\ matches[m] = None
  /\ removed[m] = None
  /\ userId # partnerId
  /\ WriteMatch(m, Some(matchDocument(userId, partnerId, degrade, now)))
  /\ UNCHANGED <<now, settleVars, pairVars,
               notifyVars>>

\* A playing client reports progress (it only grows, and stops at the finish).
ClientProgress(m, u, p) ==
  /\ IsSome(matches[m])
  /\ u \in DOMAIN matches[m][1].player_states
  /\ IsSome(matches[m][1].player_states[u])
  /\ LET st == matches[m][1].player_states[u][1]
     IN  /\ ~IsSome(st.finished_at)
         /\ IF IsSome(st.progress) THEN p > st.progress[1] ELSE TRUE
         /\ WriteMatch(m, Some([matches[m][1] EXCEPT
                !.player_states[u] = Some([st EXCEPT !.progress = Some(p)])]))
  /\ UNCHANGED <<now, settleVars, pairVars,
               notifyVars>>

\* A playing client finishes the puzzle.
ClientFinish(m, u) ==
  /\ IsSome(matches[m])
  /\ u \in DOMAIN matches[m][1].player_states
  /\ IsSome(matches[m][1].player_states[u])
  /\ LET st == matches[m][1].player_states[u][1]
     IN  /\ ~IsSome(st.finished_at)
         /\ WriteMatch(m, Some([matches[m][1] EXCEPT
                !.player_states[u] = Some([st EXCEPT !.finished_at = Some(now)])]))
  /\ UNCHANGED <<now, settleVars, pairVars,
               notifyVars>>

\* Mutant: the caller's identity is not tested.
argumentsAccepted_anyCaller(matchId, authenticated) == IsSome(matchId)

\* Neither of the two throws in front of the transaction is taken:
\* !matchId, !request.auth?.uid.
argumentsAccepted(matchId, authenticated) ==
  IF ~IsSome(matchId) THEN FALSE
  ELSE IF ~authenticated THEN FALSE
  ELSE TRUE

\* completeMatch up to the transaction: the two argument checks.  The call
\* record keeps the request (request.data.matchId, request.auth).  Calls are
\* numbered in the order they arrive.
completeMatchCall(c, matchId, authenticated) ==
  /\ calls[c].pc = "idle"
  /\ \A d \in CallIds : d < c => calls[d].pc # "idle"
  /\ calls' = [calls EXCEPT ![c] =
       [@ EXCEPT !.pc = IF argumentsAccepted(matchId, authenticated)
                        THEN "tx" ELSE "rejected",
                 !.matchId = matchId,
                 !.authenticated = authenticated]]
  /\ UNCHANGED <<now, matches, version, history, removed, delRuns, pairVars,
               notifyVars>>

\* Mutant: a Match that does not exist makes the transaction fail.
afterRead_absentFails(call, doc, ver, t) ==
  IF ~IsSome(doc) THEN [call EXCEPT !.pc = "failed"]
  ELSE IF Truthy(doc[1].winner)
  THEN [call EXCEPT !.pc = "done", !.winner = doc[1].winner]
  ELSE [call EXCEPT !.pc = "commit", !.readVersion = ver, !.t = t]

\* The call after the transaction function has read the Match: it returns
\* early when the Match is absent or its winner is truthy, and otherwise
\* resolves and queues the writes.
afterRead(call, doc, ver, t) ==
  IF ~IsSome(doc) THEN [call EXCEPT !.pc = "done"]
  ELSE IF Truthy(doc[1].winner)
  THEN [call EXCEPT !.pc = "done", !.winner = doc[1].winner]
  ELSE [call EXCEPT !.pc = "commit", !.readVersion = ver, !.t = t]

\* One run of the transaction function.
completeMatchTx(c) ==
  /\ calls[c].pc = "tx"
  /\ LET m == calls[c].matchId[1]
     IN  calls' = [calls EXCEPT ![c] =
           afterRead(calls[c], matches[m], version[m], now)]
  /\ UNCHANGED <<now, matches, version, history, removed, delRuns, pairVars,
               notifyVars>>

\* Mutant: the update of the Match is not part of the commit.
settledMatch_notWritten(doc, winner, t) == doc

\* The writes of one run of the transaction function on the document read.
settledMatch(doc, winner, t) ==
  [doc EXCEPT !.winner = winner,
              !.isDraw = Some(winner = "null"),
              !.completed_at = Some(t)]

\* Commit: the writes apply if the Match is as it was read; otherwise the
\* store runs the transaction function again (giveUp = FALSE) or, its
\* attempts used up, fails the transaction and the call throws.
completeMatchCommit(c, giveUp) ==
  /\ calls[c].pc = "commit"
  /\ LET m == calls[c].matchId[1]
     IN  IF version[m] = calls[c].readVersion
         THEN LET doc == matches[m][1]
                  winner == determineWinner(doc.players, doc.player_states)
              IN  /\ WriteMatch(m, Some(settledMatch(doc, winner, calls[c].t)))
                  /\ history' =
                       history \o historyEntries(m, doc, winner, calls[c].t)
                  /\ calls' = [calls EXCEPT ![c] =
                       [@ EXCEPT !.pc = "done", !.winner = winner,
                                 !.readVersion = 0, !.t = 0]]
         ELSE /\ calls' = [calls EXCEPT ![c] =
                   [@ EXCEPT !.pc = IF giveUp THEN "failed" ELSE "tx",
                             !.readVersion = 0, !.t = 0]]
              /\ UNCHANGED <<matches, version, history>>
  /\ UNCHANGED <<now, removed, delRuns, pairVars,
               notifyVars>>

\* The cleanup process removes the Match; the event carries its last state.
DeleteMatch(m) ==
  /\ IsSome(matches[m])
  /\ WriteMatch(m, None)
  /\ removed' = [removed EXCEPT ![m] = matches[m]]
  /\ UNCHANGED <<now, history, calls, delRuns, pairVars,
               notifyVars>>

\* The winner the removal handler writes history with.
removalWinner(doc) ==
  IF ~Truthy(doc.winner)
  THEN determineWinner(doc.players, doc.player_states)
  ELSE doc.winner

\* Mutant: the removal handler writes history only for an unsettled Match.
removalEntries_unsettledOnly(m, doc, t) ==
  IF Len(doc.players) = 0 \/ doc.winner # "undefined" THEN <<>>
  ELSE historyEntries(m, doc, removalWinner(doc), t)

\* The entries the removal handler puts in its batch: none without players,
\* otherwise one per player, whether or not the Match was settled.
removalEntries(m, doc, t) ==
  IF Len(doc.players) = 0 THEN <<>>
  ELSE historyEntries(m, doc, removalWinner(doc), t)

\* onMatchDeleted on one delivery of the removal event.
onMatchDeleted(m) ==
  /\ IsSome(removed[m])
  /\ delRuns[m] < MaxDeliveries
  /\ delRuns' = [delRuns EXCEPT ![m] = @ + 1]
  /\ history' = history \o removalEntries(m, removed[m][1], now)
  /\ UNCHANGED <<now, matches, version, calls, removed, pairVars,
               notifyVars>>

NextSettle ==
  \/ TickSettle
  \/ \E m \in SettledIds, u \in SettleUsers, v \in SettleUsers,
        d \in Degrades : MatchWritten(m, u, v, d)
  \/ \E m \in SettledIds, u \in SettleUsers, p \in 1 .. MaxProgress :
        ClientProgress(m, u, p)
  \/ \E m \in SettledIds, u \in SettleUsers : ClientFinish(m, u)
  \/ \E c \in CallIds, m \in MatchIds, a \in BOOLEAN :
        \/ completeMatchCall(c, Some(m), a)
        \/ completeMatchCall(c, None, a)
  \/ \E c \in CallIds : completeMatchTx(c)
  \/ \E c \in CallIds, g \in BOOLEAN : completeMatchCommit(c, g)
  \/ \E m \in SettledIds : DeleteMatch(m)
  \/ \E m \in SettledIds : onMatchDeleted(m)

SpecSettle == Init /\ [][NextSettle]_vars

\* ------------------------------------------- settlement of any one match
\* The settlement of one Match in any state the clients can have left it in:
\* created at time 0, each player's progress and finished_at anything up to
\* now, and one completeMatch call and the removal acting on it.
resolveTimes == {k * TickSeconds : k \in 0 .. MaxSettleTicks}

playerStatesUpTo(t) ==
  { Some([progress |-> pr, finished_at |-> f]) :
      pr \in {None} \cup {Some(x) : x \in 0 .. MaxProgress},
      f \in {None} \cup {Some(x) : x \in {y \in resolveTimes : y <= t}} }

InitResolve ==
  /\ now \in resolveTimes
  /\ \E u \in SettleUsers, v \in SettleUsers, d \in Degrades,
        su \in playerStatesUpTo(now), sv \in playerStatesUpTo(now) :
       /\ u # v
       /\ matches = [m \in MatchIds |->
            IF m \in SettledIds
            THEN Some([matchDocument(u, v, d, 0) EXCEPT
                   !.player_states =
                     [w \in {u, v} |->
                        IF w = u THEN su
                        ELSE IF d = "state" THEN None ELSE sv]])
            ELSE None]
  /\ version = [m \in MatchIds |-> IF m \in SettledIds THEN 1 ELSE 0]
  /\ history = <<>>
  /\ calls = [c \in CallIds |-> idleCall]
  /\ removed = [m \in MatchIds |-> None]
  /\ delRuns = [m \in MatchIds |-> 0]
  /\ queue = [u \in Users |-> None]
  /\ events = {}
  /\ procs = [p \in ProcIds |-> idleProc]
  /\ recentJoins = [u \in Users |-> None]
  /\ notifiers = [n \in NotifierIds |-> idleNotifier]
  /\ alerts = <<>>
  /\ clients = registeredClients
  /\ dispatch = idleDispatch

ResolveCallIds == {1}

NextResolve ==
  \/ \E c \in ResolveCallIds, m \in SettledIds : completeMatchCall(c, Some(m), TRUE)
  \/ \E c \in ResolveCallIds : completeMatchTx(c)
  \/ \E c \in ResolveCallIds, g \in BOOLEAN : completeMatchCommit(c, g)
  \/ \E m \in SettledIds : DeleteMatch(m)
  \/ \E m \in SettledIds : onMatchDeleted(m)

SpecResolve == InitResolve /\ [][NextResolve]_vars

\* ------------------------------------------ explicit completion, any call
\* Two completeMatch calls with any arguments, for the Match above or for an
\* id that has no document, and the removal of the Match.
ExplicitCallIds == {1, 2}
CalledIds == {1, 2}

NextExplicit ==
  \/ \E c \in ExplicitCallIds, m \in CalledIds, a \in BOOLEAN :
        \/ completeMatchCall(c, Some(m), a)
        \/ completeMatchCall(c, None, a)
  \/ \E c \in ExplicitCallIds : completeMatchTx(c)
  \/ \E c \in ExplicitCallIds, g \in BOOLEAN : completeMatchCommit(c, g)
  \/ \E m \in SettledIds : DeleteMatch(m)
  \/ \E m \in SettledIds : onMatchDeleted(m)

SpecExplicit == InitResolve /\ [][NextExplicit]_vars

\* --------------------------------------------------------------- pairing
\* Document ids order the entries that share a joined_at.
idRank(u) == CASE u = "ua" -> 1 [] u = "ub" -> 2 [] OTHER -> 3

\* Mutant: the filter keeps the entry that is exactly as old as the TTL.
withinTtl_inclusive(doc, cutoff) == doc.joined_at >= cutoff

\* where("joined_at", ">", cutoff)
withinTtl(doc, cutoff) == doc.joined_at > cutoff

\* orderBy("joined_at"): a before b.
joinedBefore(q, a, b) ==
  \/ q[a][1].joined_at < q[b][1].joined_at
  \/ /\ q[a][1].joined_at = q[b][1].joined_at
     /\ idRank(a) < idRank(b)

\* The candidates query: the ids of the entries newer than the cutoff, by
\* joined_at ascending, limit(2).
candidatesQuery(q, cutoff) ==
  LET hits == {u \in Users : IsSome(q[u]) /\ withinTtl(q[u][1], cutoff)}
      first == CHOOSE a \in hits : \A b \in hits \ {a} : joinedBefore(q, a, b)
      others == hits \ {first}
      second == CHOOSE a \in others : \A b \in others \ {a} : joinedBefore(q, a, b)
  IN  IF hits = {} THEN <<>>
      ELSE IF others = {} THEN <<first>>
      ELSE <<first, second>>

\* Mutant: only the first candidate is looked at.
availablePartner_firstOnly(candidates, userId) ==
  IF candidates # <<>> /\ candidates[1] # userId
  THEN Some(candidates[1])
  ELSE None

\* candidatesSnap.docs.find((doc) => doc.id !== userId && doc.exists)
availablePartner(candidates, userId) ==
  LET idx == {i \in 1 .. Len(candidates) : candidates[i] # userId}
  IN  IF idx = {} THEN None
      ELSE Some(candidates[CHOOSE i \in idx : \A j \in idx : i <= j])

\* Math.random() is i / RandomGrain for some i in 0 .. RandomGrain - 1.
RandomDraws == 0 .. (RandomGrain - 1)

\* Math.floor(Math.random() * 283) + 20
randomNum(i) == ((i * PUZZLE_SPAN) \div RandomGrain) + PUZZLE_BASE

\* "cls:" + randomNum
puzzleIdOf(i) == "cls:" \o ToString(randomNum(i))

\* Mutant: the first id drawn is returned, excluded or not.
generateRandomPuzzleId_noExclusion(draws) ==
  IF draws = <<>> THEN None ELSE Some(puzzleIdOf(Head(draws)))

RECURSIVE generateRandomPuzzleId(_)
\* The do-while loop on the successive values of Math.random(): the first id
\* that is not in the exclusion list.  None when the values given run out
\* with the loop still going.
generateRandomPuzzleId(draws) ==
  IF draws = <<>> THEN None
  ELSE IF puzzleIdOf(Head(draws)) \in EXCLUDED_LEVELS_LIST
  THEN generateRandomPuzzleId(Tail(draws))
  ELSE Some(puzzleIdOf(Head(draws)))

\* The values of Math.random() one call of the generator can consume: any
\* value, after up to MaxRedraws values that made the loop go round.
RECURSIVE redrawSequences(_)
redrawSequences(n) ==
  IF n = 0 THEN {<<>>}
  ELSE LET shorter == redrawSequences(n - 1)
       IN  shorter \cup
           { <<i>> \o ds : i \in {j \in RandomDraws :
                                    puzzleIdOf(j) \in EXCLUDED_LEVELS_LIST},
                           ds \in {d \in shorter : Len(d) = n - 1} }

DrawSequences ==
  { ds \o <<i>> : ds \in redrawSequences(MaxRedraws), i \in RandomDraws }

\* The pairing model fixes the random values: one redraw, then the lowest id.
PairDraws == { <<i, 0>> : i \in {j \in RandomDraws : randomNum(j) = 37} }

TickPair ==
  /\ Tick(MaxPairTicks)
  /\ UNCHANGED <<matches, version, settleVars, pairVars,
               notifyVars>>

\* A player asks for a match: the client creates match_queue/{userId}.
Enqueue(u) ==
  /\ queue[u] = None
  /\ \A e \in events : e.userId # u
  /\ queue' = [queue EXCEPT ![u] = Some([joined_at |-> now])]
  /\ events' = events \cup {[userId |-> u, exists |-> TRUE]}
  /\ UNCHANGED <<now, matches, version, settleVars, procs,
               notifyVars>>

\* The player leaves the queue: the client deletes its entry.
Withdraw(u) ==
  /\ IsSome(queue[u])
  /\ queue' = [queue EXCEPT ![u] = None]
  /\ events' = events \cup {[userId |-> u, exists |-> FALSE]}
  /\ UNCHANGED <<now, matches, version, settleVars, procs,
               notifyVars>>

\* onQueueUpdated up to the transaction, on one delivery of the event e (an
\* event may be delivered more than once); of the event's snapshot the handler
\* uses only whether it exists, and for a deleted entry it returns at once,
\* leaving everything as it is.  Invocations are numbered in the order they
\* start; invocation p draws the match id p.
onQueueUpdated(p, e) ==
  /\ procs[p].pc = "idle"
  /\ \A r \in ProcIds : r < p => procs[r].pc # "idle"
  /\ e \in events
  /\ procs' = [procs EXCEPT ![p] =
       IF ~e.exists
       THEN @
       ELSE [@ EXCEPT !.pc = "tx", !.userId = e.userId,
                      !.cutoff = now - QUEUE_TTL_SECONDS,
                      !.createdAt = now]]
  /\ UNCHANGED <<now, matches, version, settleVars, queue, events,
               notifyVars>>

\* The invocation p has returned.
finished(p) ==
  [idleProc EXCEPT !.pc = "done", !.userId = procs[p].userId]

\* Mutant: the transaction does not read the triggering player's own entry.
partnerFound_noOwnRead(q, userId, cutoff) ==
  availablePartner(candidatesQuery(q, cutoff), userId)

\* The partner the transaction function settles on, reading the store as it
\* is when it runs (the reads of one transaction see one state of the store):
\* None when it returns early, at the own entry, at the query, or at the
\* second read of the partner's entry.
partnerFound(q, userId, cutoff) ==
  LET partner == availablePartner(candidatesQuery(q, cutoff), userId)
  IN  IF ~IsSome(q[userId]) THEN None
      ELSE IF ~IsSome(partner) THEN None
      ELSE IF ~IsSome(q[partner[1]]) THEN None
      ELSE partner

\* One run of the transaction function: its reads, and the writes it queues,
\* the puzzle id drawn from the values draws of Math.random().
txRun(p, draws) ==
  /\ procs[p].pc = "tx"
  /\ LET partner == partnerFound(queue, procs[p].userId, procs[p].cutoff)
         puzzleId == generateRandomPuzzleId(draws)
     IN  IF ~IsSome(partner)
         THEN procs' = [procs EXCEPT ![p] = finished(p)]
         ELSE /\ IsSome(puzzleId)
              /\ procs' = [procs EXCEPT ![p] =
                   [@ EXCEPT !.pc = "commit",
                             !.candidates =
                               candidatesQuery(queue, procs[p].cutoff),
                             !.partner = partner[1],
                             !.puzzleId = puzzleId[1]]]
  /\ UNCHANGED <<now, matches, version, settleVars, queue, events,
               notifyVars>>

\* Mutant: the commit does not compare what was read with the store.
readsUnchanged_unchecked(p) == TRUE

\* Mutant: the commit checks the triggering player's entry only.
readsUnchanged_ownOnly(p) == IsSome(queue[procs[p].userId])

\* What the transaction read is still what the store holds.
readsUnchanged(p) ==
  /\ IsSome(queue[procs[p].userId])
  /\ candidatesQuery(queue, procs[p].cutoff) = procs[p].candidates
  /\ IsSome(queue[procs[p].partner])

\* Commit: the Match is created and both entries are deleted, or, what was
\* read having changed, the store runs the transaction function again.
txCommit(p) ==
  /\ procs[p].pc = "commit"
  /\ IF readsUnchanged(p)
     THEN LET userId == procs[p].userId
              partnerId == procs[p].partner
          IN  /\ WriteMatch(p, Some(newMatch(userId, partnerId,
                     procs[p].createdAt,
                     procs[p].createdAt + START_DELAY_SECONDS,
                     procs[p].puzzleId)))
              /\ queue' = [queue EXCEPT ![userId] = None, ![partnerId] = None]
              /\ events' = events \cup
                   {[userId |-> userId, exists |-> FALSE],
                    [userId |-> partnerId, exists |-> FALSE]}
              /\ procs' = [procs EXCEPT ![p] = finished(p)]
     ELSE /\ procs' = [procs EXCEPT ![p] =
               [@ EXCEPT !.pc = "tx", !.candidates = <<>>, !.partner = "",
                         !.puzzleId = ""]]
          /\ UNCHANGED <<matches, version, queue, events>>
  /\ UNCHANGED <<now, settleVars,
               notifyVars>>

\* Every behaviour is, up to the names of the players, one in which they
\* join in the order of their ids: the code tells players apart only by the
\* order of joined_at and, among equal ones, of the ids.
joinsInOrder(u) ==
  \A v \in Users :
    idRank(v) < idRank(u) => \E e \in events : e.userId = v

NextPair ==
  \/ TickPair
  \/ \E u \in Users : joinsInOrder(u) /\ Enqueue(u)
  \/ \E u \in Users : Withdraw(u)
  \/ \E p \in PairProcIds, e \in events : onQueueUpdated(p, e)
  \/ \E p \in PairProcIds, ds \in PairDraws : txRun(p, ds)
  \/ \E p \in PairProcIds : txCommit(p)

SpecPair == Init /\ [][NextPair]_vars

\* ------------------------------------------- pairing, nobody withdrawing
\* The pairing of players who, once queued, wait to be paired.
NextJoin ==
  \/ TickPair
  \/ \E u \in Users : Enqueue(u)
  \/ \E p \in PairProcIds, e \in events : onQueueUpdated(p, e)
  \/ \E p \in PairProcIds, ds \in PairDraws : txRun(p, ds)
  \/ \E p \in PairProcIds : txCommit(p)

SpecJoin == Init /\ [][NextJoin]_vars

\* ------------------------------------------------- pairing, any puzzle id
\* One invocation of the trigger among the players who join at time 0, with
\* every value the random generator can give.
PuzzleProcIds == {1}

NextPuzzle ==
  \/ \E u \in Users : Enqueue(u)
  \/ \E p \in PuzzleProcIds, e \in events : onQueueUpdated(p, e)
  \/ \E p \in PuzzleProcIds, ds \in DrawSequences : txRun(p, ds)
  \/ \E p \in PuzzleProcIds : txCommit(p)

SpecPuzzle == Init /\ [][NextPuzzle]_vars

\* ------------------------------------- pairing, everybody within the TTL
\* The players join at time 0 and wait, and the trigger runs up to
\* MaxInvocations times, so that it can run for each of them: no entry is
\* withdrawn and none grows older than the TTL.
NextProgress ==
  \/ \E u \in Users : Enqueue(u)
  \/ \E p \in ProcIds, e \in events : onQueueUpdated(p, e)
  \/ \E p \in ProcIds, ds \in PairDraws : txRun(p, ds)
  \/ \E p \in ProcIds : txCommit(p)

SpecProgress == Init /\ [][NextProgress]_vars

\* ------------------------------------------------------------ join alert
TickNotify ==
  /\ now < MaxNotifyTicks * NotifyTickSeconds
  /\ now' = now + NotifyTickSeconds
  /\ UNCHANGED <<matches, version, settleVars, pairVars, notifyVars>>

\* notifyUsersOnQueueJoin on one delivery of the creation event of u's entry
\* (an event may be delivered more than once).  Invocations are numbered in
\* the order they start.
notifyStart(n, e) ==
  /\ notifiers[n].pc = "idle"
  /\ \A k \in NotifierIds : k < n => notifiers[k].pc # "idle"
  /\ e \in events
  /\ e.exists
  /\ notifiers' = [notifiers EXCEPT ![n] =
       [idleNotifier EXCEPT !.pc = "get", !.userId = e.userId,
                            !.handledAt = now]]
  /\ UNCHANGED <<now, matches, version, settleVars, pairVars, recentJoins,
                 alerts, sendVars>>

\* recentJoin.exists && lastJoin && Date.now() - lastJoin.getTime() < 5000
rateLimited(marker, t) ==
  IF ~IsSome(marker) THEN FALSE
  ELSE t - marker[1].timestamp < RATE_LIMIT_SECONDS

\* await recentJoinsRef.get(), and the return when the user joined recently.
notifyGetMarker(n) ==
  /\ notifiers[n].pc = "get"
  /\ notifiers' = [notifiers EXCEPT ![n].pc =
       IF rateLimited(recentJoins[notifiers[n].userId], now)
       THEN "limited" ELSE "set"]
  /\ UNCHANGED <<now, matches, version, settleVars, pairVars, recentJoins,
                 alerts, sendVars>>

\* await recentJoinsRef.set({timestamp: serverTimestamp()})
notifySetMarker(n) ==
  /\ notifiers[n].pc = "set"
  /\ recentJoins' = [recentJoins EXCEPT ![notifiers[n].userId] =
       Some([timestamp |-> now])]
  /\ notifiers' = [notifiers EXCEPT ![n].pc = "send"]
  /\ UNCHANGED <<now, matches, version, settleVars, pairVars, alerts,
                 sendVars>>

\* db.collection("clients").where("user_id", "!=", userId).get(): the
\* documents of the other users' devices, in document order.
clientsSnapshot(userId) ==
  SelectSeq(clients, LAMBDA c : IsSome(c) /\ c[1].user_id # userId)

\* if (clientData.fcm_token)
hasToken(c) == IsSome(c[1].fcm_token)

\* Mutant: a preference counts as enabled only when it is stored as true.
notifyAll_storedOnly(c) == c[1].notify_background_queue_joins = Some(TRUE)

\* clientData.notify_background_queue_joins !== false
notifyAll(c) == c[1].notify_background_queue_joins # Some(FALSE)

\* clientData.notify_foreground_queue_joins !== false
notifyForegroundOnly(c) == c[1].notify_foreground_queue_joins # Some(FALSE)

tokensOf(docs) == [i \in 1 .. Len(docs) |-> docs[i][1].fcm_token[1]]

\* The tokens the forEach pushes to notifyAllTokens.
notifyAllTokens(snapshot) ==
  tokensOf(SelectSeq(snapshot, LAMBDA c : hasToken(c) /\ notifyAll(c)))

\* The tokens the forEach pushes to foregroundOnlyTokens.
foregroundOnlyTokens(snapshot) ==
  tokensOf(SelectSeq(snapshot,
    LAMBDA c : hasToken(c) /\ ~notifyAll(c) /\ notifyForegroundOnly(c)))

\* The rest of the handler: the other users' clients are fetched, their
\* tokens are sorted into the two groups, and unless the snapshot is empty
\* or no token is left the alert is sent to both groups.
notifySend(n) ==
  LET snapshot == clientsSnapshot(notifiers[n].userId)
      background == notifyAllTokens(snapshot)
      foreground == foregroundOnlyTokens(snapshot)
  IN
  /\ notifiers[n].pc = "send"
  /\ IF Len(snapshot) = 0
     THEN /\ notifiers' = [notifiers EXCEPT ![n].pc = "none"]
          /\ UNCHANGED alerts
     ELSE IF Len(background) + Len(foreground) = 0
     THEN /\ notifiers' = [notifiers EXCEPT
               ![n].pc = "none",
               ![n].notifyAllTokens = background,
               ![n].foregroundOnlyTokens = foreground]
          /\ UNCHANGED alerts
     ELSE /\ notifiers' = [notifiers EXCEPT
               ![n].pc = "sent",
               ![n].notifyAllTokens = background,
               ![n].foregroundOnlyTokens = foreground]
          /\ alerts' = Append(alerts,
               [userId |-> notifiers[n].userId,
                handledAt |-> notifiers[n].handledAt])
  /\ UNCHANGED <<now, matches, version, settleVars, pairVars, recentJoins,
                 sendVars>>

NextNotify ==
  \/ TickNotify
  \/ \E u \in Users : Enqueue(u)
  \/ \E n \in NotifierIds, e \in events : notifyStart(n, e)
  \/ \E n \in NotifierIds : notifyGetMarker(n)
  \/ \E n \in NotifierIds : notifySetMarker(n)
  \/ \E n \in NotifierIds : notifySend(n)

SpecNotify == Init /\ [][NextNotify]_vars

\* ------------------------------------- join alert, any clients collection
\* One join handled by one invocation, over every clients collection of up
\* to MaxClients devices: each document absent, or a device of any user
\* with or without a token and with each preference true, false or absent.
Preferences == {None, Some(TRUE), Some(FALSE)}

\* What a clients document can hold, but for the value of its token.
clientShapes ==
  {None} \cup
  { Some([ user_id |-> u, token |-> t,
           notify_background_queue_joins |-> b,
           notify_foreground_queue_joins |-> f ]) :
      u \in Users, t \in BOOLEAN, b \in Preferences, f \in Preferences }

clientDocument(c, shape) ==
  IF ~IsSome(shape) THEN None
  ELSE Some([ user_id |-> shape[1].user_id,
              fcm_token |-> IF shape[1].token THEN Some(tokenOf(c)) ELSE None,
              notify_background_queue_joins |->
                shape[1].notify_background_queue_joins,
              notify_foreground_queue_joins |->
                shape[1].notify_foreground_queue_joins ])

InitPartition ==
  /\ now = 0
  /\ matches = [m \in MatchIds |-> None]
  /\ version = [m \in MatchIds |-> 0]
  /\ history = <<>>
  /\ calls = [c \in CallIds |-> idleCall]
  /\ removed = [m \in MatchIds |-> None]
  /\ delRuns = [m \in MatchIds |-> 0]
  /\ queue = [u \in Users |-> None]
  /\ events = {}
  /\ procs = [p \in ProcIds |-> idleProc]
  /\ recentJoins = [u \in Users |-> None]
  /\ notifiers = [n \in NotifierIds |-> idleNotifier]
  /\ alerts = <<>>
  /\ \E shapes \in [ClientIds -> clientShapes] :
       clients = [c \in ClientIds |-> clientDocument(c, shapes[c])]
  /\ dispatch = idleDispatch

PartitionJoiners == {"ua"}
PartitionNotifierIds == {1}

NextPartition ==
  \/ \E u \in PartitionJoiners : Enqueue(u)
  \/ \E n \in PartitionNotifierIds, e \in events : notifyStart(n, e)
  \/ \E n \in PartitionNotifierIds : notifyGetMarker(n)
  \/ \E n \in PartitionNotifierIds : notifySetMarker(n)
  \/ \E n \in PartitionNotifierIds : notifySend(n)

SpecPartition == InitPartition /\ [][NextPartition]_vars

\* ----------------------------------------------- join alert: sendBatches
\* One call of sendBatches on the tokens of a group.  The batches are sent
\* concurrently; Promise.allSettled waits until every one of them has
\* fulfilled or rejected, in any order.  A fulfilled sendEachForMulticast
\* answers with one response per token of the batch, so its successCount and
\* failureCount add up to the size of the batch.
minimum(a, b) == IF a < b THEN a ELSE b

\* for (let i = 0; i < tokens.length; i += BATCH_SIZE)
\*   batches.push(tokens.slice(i, i + BATCH_SIZE))
RECURSIVE sliceBatches(_, _)
sliceBatches(tokens, i) ==
  IF i < Len(tokens)
  THEN <<SubSeq(tokens, i + 1, minimum(i + BATCH_SIZE, Len(tokens)))>>
       \o sliceBatches(tokens, i + BATCH_SIZE)
  ELSE <<>>

\* How the promise of one batch can settle.
batchOutcomes(batch) ==
  {[status |-> "rejected", successCount |-> 0, failureCount |-> 0]} \cup
  { [status |-> "fulfilled", successCount |-> k,
     failureCount |-> Len(batch) - k] : k \in {0, Len(batch) - 1, Len(batch)} }

\* Mutant: a rejected batch adds nothing to the failure count.
failureCountOf_rejectedLost(result, batch) ==
  IF result.status = "fulfilled" THEN result.failureCount ELSE 0

\* What results.forEach adds to failureCount for one result.
failureCountOf(result, batch) ==
  IF result.status = "fulfilled" THEN result.failureCount ELSE Len(batch)

\* What results.forEach adds to successCount for one result.
successCountOf(result) ==
  IF result.status = "fulfilled" THEN result.successCount ELSE 0

RECURSIVE successCount(_, _)
successCount(results, index) ==
  IF index > Len(results) THEN 0
  ELSE successCountOf(results[index][1]) + successCount(results, index + 1)

RECURSIVE failureCount(_, _, _)
failureCount(results, batches, index) ==
  IF index > Len(results) THEN 0
  ELSE failureCountOf(results[index][1], batches[index])
       + failureCount(results, batches, index + 1)

\* The call up to the await: the early return on no tokens, or the batches
\* built and every one of them handed to sendEachForMulticast.
sendBatches ==
  /\ dispatch.pc = "called"
  /\ dispatch' =
       IF Len(dispatch.tokens) = 0
       THEN [dispatch EXCEPT !.pc = "returned", !.success = 0, !.failure = 0]
       ELSE LET batches == sliceBatches(dispatch.tokens, 0)
            IN  [dispatch EXCEPT
                   !.pc = "sending",
                   !.batches = batches,
                   !.results = [i \in 1 .. Len(batches) |-> None]]
  /\ UNCHANGED <<now, matches, version, settleVars, pairVars, recentJoins,
                 notifiers, alerts, clients>>

\* The promise of batch index settles.
batchSettles(index, outcome) ==
  /\ dispatch.pc = "sending"
  /\ index \in 1 .. Len(dispatch.batches)
  /\ dispatch.results[index] = None
  /\ outcome \in batchOutcomes(dispatch.batches[index])
  /\ dispatch' = [dispatch EXCEPT !.results[index] = Some(outcome)]
  /\ UNCHANGED <<now, matches, version, settleVars, pairVars, recentJoins,
                 notifiers, alerts, clients>>

\* Promise.allSettled resolves, results.forEach adds up, the call returns.
sendBatchesReturn ==
  /\ dispatch.pc = "sending"
  /\ \A i \in 1 .. Len(dispatch.results) : IsSome(dispatch.results[i])
  /\ dispatch' = [dispatch EXCEPT
       !.pc = "returned",
       !.success = successCount(dispatch.results, 1),
       !.failure = failureCount(dispatch.results, dispatch.batches, 1)]
  /\ UNCHANGED <<now, matches, version, settleVars, pairVars, recentJoins,
                 notifiers, alerts, clients>>

\* The sizes of a group: around every multiple of BATCH_SIZE up to
\* MaxBatches full batches.
TokenCounts ==
  { n \in { k * BATCH_SIZE + d : k \in 0 .. MaxBatches, d \in {-1, 0, 1} } :
      n >= 0 }

InitBatch ==
  /\ now = 0
  /\ matches = [m \in MatchIds |-> None]
  /\ version = [m \in MatchIds |-> 0]
  /\ history = <<>>
  /\ calls = [c \in CallIds |-> idleCall]
  /\ removed = [m \in MatchIds |-> None]
  /\ delRuns = [m \in MatchIds |-> 0]
  /\ queue = [u \in Users |-> None]
  /\ events = {}
  /\ procs = [p \in ProcIds |-> idleProc]
  /\ recentJoins = [u \in Users |-> None]
  /\ notifiers = [n \in NotifierIds |-> idleNotifier]
  /\ alerts = <<>>
  /\ clients = registeredClients
  /\ \E n \in TokenCounts :
       dispatch = [idleDispatch EXCEPT
         !.pc = "called", !.tokens = [i \in 1 .. n |-> tokenOf(i)]]

NextBatch ==
  \/ sendBatches
  \/ \E index \in 1 .. (MaxBatches + 1),
        outcome \in UNION {batchOutcomes(dispatch.batches[i]) :
                             i \in 1 .. Len(dispatch.batches)} :
       batchSettles(index, outcome)
  \/ sendBatchesReturn

SpecBatch == InitBatch /\ [][NextBatch]_vars

\* ------------------------------------------------- settlement: properties
historyOf(m) == SelectSeq(history, LAMBDA h : h.match_id = m)

\* The entries the step appends to match_history.
newEntries == SubSeq(history', Len(history) + 1, Len(history'))

\* The step is the commit of an explicit completion of m.
explicitSettles(m) ==
  /\ IsSome(matches[m])
  /\ IsSome(matches'[m])
  /\ history' # history

\* The step is a run of onMatchDeleted for m that resolves the winner.
removalResolves(m) ==
  /\ delRuns'[m] # delRuns[m]
  /\ ~Truthy(removed[m][1].winner)

finishedPlayers(doc) ==
  {u \in DOMAIN doc.player_states : IsSome(finishedAtOf(doc.player_states[u]))}

otherPlayer(doc, u) == CHOOSE v \in DOMAIN doc.player_states : v # u

\* The new entries record w as the winner: win for w, loss for the other.
entriesNameWinner(w) ==
  /\ Len(newEntries) = 2
  /\ \A i \in 1 .. 2 :
       newEntries[i].result = IF newEntries[i].player_id = w THEN "win" ELSE "loss"

entriesNameDraw ==
  /\ Len(newEntries) = 2
  /\ \A i \in 1 .. 2 : newEntries[i].result = "draw"

\* The step settles m on doc with the outcome w (a user id, or "null").
settlesWith(m, w) ==
  /\ explicitSettles(m) =>
       /\ matches'[m][1].winner = w
       /\ matches'[m][1].isDraw = Some(w = "null")
       /\ IF w = "null" THEN entriesNameDraw ELSE entriesNameWinner(w)
  /\ removalResolves(m) =>
       IF w = "null" THEN entriesNameDraw ELSE entriesNameWinner(w)

\* The document a settlement step of m resolves on.
resolvedDoc(m) == IF IsSome(matches[m]) THEN matches[m][1] ELSE removed[m][1]

settlementStep(m) == explicitSettles(m) \/ removalResolves(m)

\* C2: for every matchId at most 2 history entries ever exist, whatever the
\* interleaving of explicit completions and match-removed events.
C2_AtMostTwoEntries == \A m \in MatchIds : Len(historyOf(m)) <= 2

\* C3: two explicit completions of the same match that both found the Match
\* return the same winner and leave exactly 2 history entries for it (no
\* removal of the match being handled).
C3_TwiceIsIdempotent ==
  \A c \in CallIds, d \in CallIds :
    ( /\ c # d
      /\ calls[c].pc = "done" /\ calls[d].pc = "done"
      /\ calls[c].matchId = calls[d].matchId
      /\ calls[c].winner # "undefined" /\ calls[d].winner # "undefined"
      /\ delRuns[calls[c].matchId[1]] = 0 )
    => /\ calls[c].winner = calls[d].winner
       /\ Len(historyOf(calls[c].matchId[1])) = 2

\* C4: once a Match carries a winner (a user id or the null draw sentinel),
\* no step changes its winner, isDraw or completed_at.
C4_WinnerStep ==
  \A m \in MatchIds :
    ( /\ IsSome(matches[m]) /\ IsSome(matches'[m])
      /\ matches[m][1].winner # "undefined" )
    => /\ matches'[m][1].winner = matches[m][1].winner
       /\ matches'[m][1].isDraw = matches[m][1].isDraw
       /\ matches'[m][1].completed_at = matches[m][1].completed_at

C4_WinnerSetOnce == [][C4_WinnerStep]_vars

\* C6: when exactly one player has a finishedAt, resolution names that player
\* the winner and isDraw is false, whatever the progress values and the order
\* of the players list, in the explicit and in the removal path.
C6_Step ==
  \A m \in MatchIds :
    (settlementStep(m) /\ Cardinality(finishedPlayers(resolvedDoc(m))) = 1)
    => settlesWith(m, CHOOSE u \in finishedPlayers(resolvedDoc(m)) : TRUE)

C6_OnlyFinisherWins == [][C6_Step]_vars

\* Reached: a win recorded for the only finisher, whose opponent had the
\* higher progress.
C6_Witness ==
  \E i \in 1 .. Len(history) :
    /\ history[i].result = "win"
    /\ IsSome(history[i].player_finished_at)
    /\ ~IsSome(history[i].opponent_finished_at)
    /\ history[i].opponent_progress > history[i].player_progress

\* C7: when neither player has a finishedAt, the player with the strictly
\* higher progress wins, and equal progress (a missing state counting as 0)
\* is a draw: winner null, isDraw true.
C7_Step ==
  \A m \in MatchIds :
    (settlementStep(m) /\ finishedPlayers(resolvedDoc(m)) = {})
    => LET doc == resolvedDoc(m)
           a == doc.players[1]
           b == doc.players[2]
           pa == progressOf(doc.player_states[a])
           pb == progressOf(doc.player_states[b])
       IN  settlesWith(m, IF pa > pb THEN a ELSE IF pb > pa THEN b ELSE "null")

C7_UnfinishedByProgress == [][C7_Step]_vars

\* Reached: a Match settled as a draw while one player's state is missing.
C7_Witness ==
  \E m \in MatchIds :
    /\ IsSome(matches[m])
    /\ matches[m][1].winner = "null"
    /\ matches[m][1].isDraw = Some(TRUE)
    /\ \E u \in DOMAIN matches[m][1].player_states :
         ~IsSome(matches[m][1].player_states[u])
    /\ Len(historyOf(m)) = 2

\* C8: when both players have a finishedAt and the two differ, the player who
\* finished earlier wins, whatever the progress values and the list order.
C8_Step ==
  \A m \in MatchIds :
    LET doc == resolvedDoc(m)
        a == doc.players[1]
        b == doc.players[2]
        ta == finishedAtOf(doc.player_states[a])
        tb == finishedAtOf(doc.player_states[b])
    IN  (settlementStep(m) /\ IsSome(ta) /\ IsSome(tb) /\ ta # tb)
        => settlesWith(m, IF ta[1] < tb[1] THEN a ELSE b)

C8_EarlierFinishWins == [][C8_Step]_vars

\* Reached: a win recorded for the earlier finisher, listed second, whose
\* opponent had the higher progress.
C8_Witness ==
  \E m \in MatchIds :
    /\ IsSome(matches[m])
    /\ Truthy(matches[m][1].winner)
    /\ matches[m][1].winner = matches[m][1].players[2]
    /\ \E i \in 1 .. Len(history) :
         /\ history[i].match_id = m
         /\ history[i].result = "win"
         /\ IsSome(history[i].player_finished_at)
         /\ IsSome(history[i].opponent_finished_at)
         /\ history[i].player_finished_at[1] < history[i].opponent_finished_at[1]
         /\ history[i].opponent_progress > history[i].player_progress

\* Two entries of one match mirror each other and agree on the outcome.
mirrored(h, g) ==
  /\ h.player_id # g.player_id
  /\ h.opponent_id = g.player_id
  /\ g.opponent_id = h.player_id
  /\ h.player_progress = g.opponent_progress
  /\ g.player_progress = h.opponent_progress
  /\ h.player_finished_at = g.opponent_finished_at
  /\ g.player_finished_at = h.opponent_finished_at
  /\ <<h.result, g.result>> \in
       {<<"win", "loss">>, <<"loss", "win">>, <<"draw", "draw">>}

\* C9: an explicit completion or a removal of an unsettled match leaves
\* exactly 2 history entries for it, one per player, each the other's mirror,
\* with results win and loss, or draw and draw.
C9_Step ==
  \A m \in MatchIds :
    ( /\ settlementStep(m)
      /\ resolvedDoc(m).winner = "undefined"
      /\ historyOf(m) = <<>> )
    => LET hs == SelectSeq(history', LAMBDA h : h.match_id = m)
       IN  /\ Len(hs) = 2
           /\ {hs[1].player_id, hs[2].player_id} =
                {resolvedDoc(m).players[1], resolvedDoc(m).players[2]}
           /\ mirrored(hs[1], hs[2])

C9_TwoMirroredEntries == [][C9_Step]_vars

\* Reached: the removal of an unsettled match has written a loss and a win.
C9_Witness ==
  \E m \in MatchIds :
    /\ IsSome(removed[m])
    /\ removed[m][1].winner = "undefined"
    /\ delRuns[m] = 1
    /\ Len(historyOf(m)) = 2
    /\ historyOf(m)[1].result = "loss"
    /\ historyOf(m)[2].result = "win"

\* start_at of the match m, in the store or in its removal event.
startAtOf(m) ==
  IF IsSome(matches[m]) THEN matches[m][1].start_at ELSE removed[m][1].start_at

\* C10: every history entry has match_duration >= 0: completedAt - startAt
\* when that is not negative, 0 when completedAt < startAt, and 0 when
\* start_at is missing.
C10_DurationClamped ==
  \A i \in 1 .. Len(history) :
    LET h == history[i]
        s == startAtOf(h.match_id)
    IN  /\ h.match_duration >= 0
        /\ h.match_duration =
             IF ~IsSome(s) THEN 0
             ELSE IF h.completed_at < s[1] THEN 0
             ELSE h.completed_at - s[1]

\* Reached: a match completed before its start_at, recorded with duration 0.
C10_Witness ==
  \E i \in 1 .. Len(history) :
    /\ IsSome(startAtOf(history[i].match_id))
    /\ history[i].completed_at < startAtOf(history[i].match_id)[1]
    /\ history[i].match_duration = 0

\* The request of call c fails one of the two argument checks.
invalidRequest(call) == ~IsSome(call.matchId) \/ ~call.authenticated

\* C11: a completeMatch call without a matchId or without an authenticated
\* caller is rejected when it arrives, the Match and match_history collections
\* staying as they are, and it never starts a transaction: once rejected it
\* takes no further step.
C11_Step ==
  \A c \in CallIds :
    /\ (calls[c].pc = "idle" /\ calls'[c].pc # "idle" /\ invalidRequest(calls'[c]))
       => /\ calls'[c].pc = "rejected"
          /\ UNCHANGED <<matches, version, history>>
    /\ calls[c].pc = "rejected" => calls'[c] = calls[c]

C11_InvalidCallRejected == [][C11_Step]_vars

\* Reached: an unauthenticated call for an existing, unsettled Match and a
\* call without a matchId are both rejected, the Match still unsettled.
C11_Witness ==
  \E c \in CallIds, d \in CallIds, m \in MatchIds :
    /\ calls[c].pc = "rejected" /\ calls[d].pc = "rejected"
    /\ calls[c].matchId = Some(m) /\ ~calls[c].authenticated
    /\ ~IsSome(calls[d].matchId) /\ calls[d].authenticated
    /\ IsSome(matches[m])
    /\ matches[m][1].winner = "undefined"
    /\ history = <<>>

\* C15: a completeMatch call on a Match whose winner is already set, to a
\* user id or to the null draw sentinel, writes nothing: no step of a call
\* that finds such a Match changes the Match or the history.
C15_Step ==
  \A c \in CallIds :
    ( /\ calls[c].pc \in {"tx", "commit"}
      /\ calls'[c] # calls[c]
      /\ IsSome(matches[calls[c].matchId[1]])
      /\ matches[calls[c].matchId[1]][1].winner # "undefined" )
    => /\ matches' = matches
       /\ history' = history

C15_SettledMatchUntouched == [][C15_Step]_vars

\* C16: a completeMatch call for a matchId that has no Match document, never
\* created or already removed, returns success without a winner and writes
\* nothing: no Match is created and no history entry is added.
C16_Step ==
  \A c \in CallIds :
    ( /\ calls[c].pc = "tx"
      /\ calls'[c] # calls[c]
      /\ ~IsSome(matches[calls[c].matchId[1]]) )
    => /\ calls'[c].pc = "done"
       /\ calls'[c].winner = "undefined"
       /\ matches' = matches
       /\ history' = history

C16_AbsentMatchNoWrite == [][C16_Step]_vars

\* Reached: one call has returned for an id that never had a Match, another
\* for a Match that was removed unsettled, and there is no history.
C16_Witness ==
  \E c \in CallIds, d \in CallIds, m \in MatchIds, k \in MatchIds :
    /\ calls[c].pc = "done" /\ calls[c].matchId = Some(m)
    /\ matches[m] = None /\ removed[m] = None /\ version[m] = 0
    /\ calls[d].pc = "done" /\ calls[d].matchId = Some(k)
    /\ matches[k] = None /\ IsSome(removed[k])
    /\ removed[k][1].winner = "undefined"
    /\ history = <<>>

\* C17: the removal path writes history whether or not the Match was
\* settled: when a Match settled by an explicit completion (2 entries) is
\* removed, onMatchDeleted adds 2 entries with the recorded outcome, and 4
\* entries exist for the matchId.
C17_Step ==
  \A m \in MatchIds :
    ( /\ delRuns[m] = 0 /\ delRuns'[m] = 1
      /\ IsSome(removed[m][1].completed_at) )
    => /\ Len(historyOf(m)) = 2
       /\ Len(newEntries) = 2
       /\ \A i \in 1 .. 2 : newEntries[i].match_id = m
       /\ IF removed[m][1].winner = "null" THEN entriesNameDraw
          ELSE entriesNameWinner(removed[m][1].winner)
       /\ Len(SelectSeq(history', LAMBDA h : h.match_id = m)) = 4

C17_RemovalDuplicatesHistory == [][C17_Step]_vars

\* Reached: 4 entries for a Match that was settled with a winner by an
\* explicit completion and then removed.
C17_Witness ==
  \E m \in MatchIds :
    /\ IsSome(removed[m])
    /\ IsSome(removed[m][1].completed_at)
    /\ Truthy(removed[m][1].winner)
    /\ delRuns[m] = 1
    /\ Len(historyOf(m)) = 4

\* Only explicit completions have acted on the Match m.
onlyExplicit(m) == IsSome(matches[m]) /\ removed[m] = None /\ delRuns[m] = 0

\* The Match m carries an outcome exactly when history entries for m exist,
\* and then its completed_at is that of the entries written last.
settledWithHistory(m) ==
  LET doc == matches[m][1]
      hs == historyOf(m)
  IN  /\ IsSome(doc.completed_at) <=> hs # <<>>
      /\ IsSome(doc.completed_at) <=> doc.winner # "undefined"
      /\ IsSome(doc.completed_at) <=> IsSome(doc.isDraw)
      /\ hs # <<>> =>
            /\ Len(hs) % 2 = 0
            /\ hs[Len(hs)].completed_at = doc.completed_at[1]
            /\ hs[Len(hs) - 1].completed_at = doc.completed_at[1]

\* A commit of call c that the store refuses writes nothing.
refusedCommitWritesNothing(c) ==
  (calls[c].pc = "commit" /\ calls'[c].pc \in {"tx", "failed"})
  => (matches' = matches /\ history' = history)

\* C20: in the explicit path winner, isDraw and completed_at of the Match and
\* the two history entries are committed together: while only explicit
\* completions act on a Match it carries completed_at if and only if history
\* entries for it exist, and a transaction that is retried or fails leaves
\* neither.
C20_ExplicitCommitAtomic ==
  /\ [](\A m \in MatchIds : onlyExplicit(m) => settledWithHistory(m))
  /\ [][\A c \in CallIds : refusedCommitWritesNothing(c)]_vars

\* Reached: of two calls for one Match one has settled it and the other has
\* failed on the conflict, the Match and its 2 entries from one commit.
C20_Witness ==
  \E c \in CallIds, d \in CallIds, m \in MatchIds :
    /\ calls[c].pc = "done" /\ calls[c].matchId = Some(m)
    /\ calls[d].pc = "failed" /\ calls[d].matchId = Some(m)
    /\ onlyExplicit(m)
    /\ IsSome(matches[m][1].completed_at)
    /\ Len(historyOf(m)) = 2

\* C21: the history the removal path writes never contradicts the outcome
\* recorded on the Match: when the snapshot records a winner or a draw, the
\* entries of onMatchDeleted carry that outcome, whatever the player states
\* have become since the settlement.
C21_Step ==
  \A m \in MatchIds :
    ( /\ delRuns'[m] # delRuns[m]
      /\ removed[m][1].winner # "undefined" )
    => IF removed[m][1].winner = "null" THEN entriesNameDraw
       ELSE entriesNameWinner(removed[m][1].winner)

C21_RemovalKeepsOutcome == [][C21_Step]_vars

\* C24: when both players have a finishedAt and the two are equal, resolution
\* never yields a draw: the winner is the player listed first in the Match's
\* players pair and isDraw is false, in the explicit and in the removal path.
C24_Step ==
  \A m \in MatchIds :
    LET doc == resolvedDoc(m)
        a == doc.players[1]
        b == doc.players[2]
        ta == finishedAtOf(doc.player_states[a])
        tb == finishedAtOf(doc.player_states[b])
    IN  (settlementStep(m) /\ IsSome(ta) /\ IsSome(tb) /\ ta = tb)
        => settlesWith(m, a)

C24_EqualFinishFirstListed == [][C24_Step]_vars

\* Reached: a Match settled for its first listed player, isDraw false, whose
\* two history entries carry the same finish time for both players, the
\* loser having the higher progress.
C24_Witness ==
  \E m \in MatchIds :
    /\ IsSome(matches[m])
    /\ matches[m][1].winner = matches[m][1].players[1]
    /\ matches[m][1].isDraw = Some(FALSE)
    /\ Len(historyOf(m)) = 2
    /\ \A i \in 1 .. Len(history) :
         history[i].match_id = m =>
           /\ IsSome(history[i].player_finished_at)
           /\ history[i].player_finished_at = history[i].opponent_finished_at
           /\ history[i].result =
                IF history[i].player_id = matches[m][1].players[1]
                THEN "win" ELSE "loss"
    /\ \E i \in 1 .. Len(history) :
         /\ history[i].match_id = m
         /\ history[i].result = "loss"
         /\ history[i].player_progress > history[i].opponent_progress

\* ------------------------------------------------- join alert: properties
occurrences(token, tokens) ==
  Cardinality({i \in 1 .. Len(tokens) : tokens[i] = token})

\* The invocation has gone through the grouping of the clients.
grouped(n) == notifiers[n].pc \in {"sent", "none"}

\* C25: of the devices with a push token, one of the joining user lands in
\* neither group; one of another user lands in at most one group, in none
\* exactly when both preferences are stored as false, in the background
\* group exactly when the background preference is true or absent, and in
\* the foreground group exactly when the background preference is false and
\* the foreground preference is true or absent.
C25_RecipientPartition ==
  \A n \in NotifierIds, c \in ClientIds :
    (grouped(n) /\ IsSome(clients[c]) /\ IsSome(clients[c][1].fcm_token))
    => LET d == clients[c][1]
           inBackground == occurrences(d.fcm_token[1], notifiers[n].notifyAllTokens)
           inForeground ==
             occurrences(d.fcm_token[1], notifiers[n].foregroundOnlyTokens)
           backgroundOff == d.notify_background_queue_joins = Some(FALSE)
           foregroundOff == d.notify_foreground_queue_joins = Some(FALSE)
       IN  IF d.user_id = notifiers[n].userId
           THEN inBackground = 0 /\ inForeground = 0
           ELSE /\ inBackground + inForeground <= 1
                /\ (inBackground + inForeground = 0)
                     <=> (backgroundOff /\ foregroundOff)
                /\ (inBackground = 1) <=> ~backgroundOff
                /\ (inForeground = 1) <=> (backgroundOff /\ ~foregroundOff)

\* Reached: an alert whose foreground group holds the one device of another
\* user, its background preference false and its foreground preference
\* absent, while the joining user's own device has a token and no
\* preference stored.
C25_Witness ==
  \E n \in NotifierIds, c \in ClientIds, own \in ClientIds :
    /\ notifiers[n].pc = "sent"
    /\ IsSome(clients[c]) /\ IsSome(clients[own])
    /\ clients[c][1].user_id # notifiers[n].userId
    /\ clients[c][1].notify_background_queue_joins = Some(FALSE)
    /\ clients[c][1].notify_foreground_queue_joins = None
    /\ notifiers[n].foregroundOnlyTokens = <<tokenOf(c)>>
    /\ notifiers[n].notifyAllTokens = <<>>
    /\ clients[own][1].user_id = notifiers[n].userId
    /\ clients[own][1].fcm_token = Some(tokenOf(own))
    /\ clients[own][1].notify_background_queue_joins = None

RECURSIVE flattened(_)
flattened(batches) ==
  IF Len(batches) = 0 THEN <<>>
  ELSE Head(batches) \o flattened(Tail(batches))

settledAs(status) ==
  {i \in 1 .. Len(dispatch.results) :
     IsSome(dispatch.results[i]) /\ dispatch.results[i][1].status = status}

RECURSIVE total(_, _)
total(f, indices) ==
  IF indices = {} THEN 0
  ELSE LET i == CHOOSE j \in indices : TRUE
       IN  f[i] + total(f, indices \ {i})

\* C26: the batches of a group are consecutive slices of at most 400 tokens
\* that together are the group, every token in exactly one batch; the call
\* returns only after every batch was sent and has settled, and then the
\* success count is the sum over the fulfilled batches, the failure count
\* the failures of the fulfilled batches plus the sizes of the rejected
\* ones, and the two add up to the number of tokens of the group.
C26_BatchedDispatch ==
  /\ dispatch.pc \in {"sending", "returned"} =>
       /\ flattened(dispatch.batches) = dispatch.tokens
       /\ \A i \in 1 .. Len(dispatch.batches) :
            /\ Len(dispatch.batches[i]) >= 1
            /\ Len(dispatch.batches[i]) <= BATCH_SIZE
       /\ Len(dispatch.results) = Len(dispatch.batches)
  /\ dispatch.pc = "returned" =>
       /\ \A i \in 1 .. Len(dispatch.batches) : IsSome(dispatch.results[i])
       /\ dispatch.success =
            total([i \in 1 .. Len(dispatch.results) |->
                     dispatch.results[i][1].successCount],
                  settledAs("fulfilled"))
       /\ dispatch.failure =
            total([i \in 1 .. Len(dispatch.results) |->
                     dispatch.results[i][1].failureCount],
                  settledAs("fulfilled"))
            + total([i \in 1 .. Len(dispatch.batches) |->
                       Len(dispatch.batches[i])],
                    settledAs("rejected"))
       /\ dispatch.success + dispatch.failure = Len(dispatch.tokens)

\* Reached: a group of two full batches and one token more, returned with
\* the first batch rejected, the second sent to every token and the third
\* sent and failed: 400 successes and 401 failures.
C26_Witness ==
  /\ dispatch.pc = "returned"
  /\ Len(dispatch.tokens) = 2 * BATCH_SIZE + 1
  /\ Len(dispatch.batches) = 3
  /\ dispatch.results[1][1].status = "rejected"
  /\ dispatch.results[2][1].status = "fulfilled"
  /\ dispatch.results[2][1].successCount = BATCH_SIZE
  /\ dispatch.results[3][1].status = "fulfilled"
  /\ dispatch.results[3][1].failureCount = 1
  /\ dispatch.success = BATCH_SIZE
  /\ dispatch.failure = BATCH_SIZE + 1

\* ---------------------------------------------------- pairing: properties
enqueued(u) == \E e \in events : e.userId = u /\ e.exists

created == {m \in MatchIds : IsSome(matches[m])}

playersOf(m) == {matches[m][1].players[1], matches[m][1].players[2]}

matchesOf(u) == {m \in created : u \in playersOf(m)}

\* An invocation for u's creation event has run to its end.
triggerRan(u) == \E p \in ProcIds : procs[p].pc = "done" /\ procs[p].userId = u

\* Less than the TTL has passed since the first entry could be created, so
\* every entry is within the TTL of every invocation so far.
allWithinTtl == now < QUEUE_TTL_SECONDS

\* u did not leave the queue on its own: it is queued or was paired.
notWithdrawn(u) == IsSome(queue[u]) \/ matchesOf(u) # {}

\* C1: two entries within the TTL that are the only ones queued: once the
\* trigger has run for both, in any interleaving, there is exactly one Match,
\* its players are the two users, and both entries are deleted.
C1_OneMatchForTwo ==
  \A a \in Users, b \in Users :
    ( /\ a # b
      /\ enqueued(a) /\ enqueued(b)
      /\ \A c \in Users \ {a, b} : ~enqueued(c)
      /\ notWithdrawn(a) /\ notWithdrawn(b)
      /\ allWithinTtl
      /\ triggerRan(a) /\ triggerRan(b) )
    => /\ Cardinality(created) = 1
       /\ \A m \in created : playersOf(m) = {a, b}
       /\ queue[a] = None
       /\ queue[b] = None

\* Reached: two users joined, nobody else did, both triggers have run within
\* the TTL, the clock having advanced meanwhile, and the one Match exists.
C1_Witness ==
  \E a \in Users, b \in Users :
    /\ a # b
    /\ enqueued(a) /\ enqueued(b)
    /\ \A c \in Users \ {a, b} : ~enqueued(c)
    /\ allWithinTtl
    /\ now > 0
    /\ triggerRan(a) /\ triggerRan(b)
    /\ Cardinality(created) = 1
    /\ queue[a] = None /\ queue[b] = None

\* C5: the partner of every Match (the second of its players) had, when the
\* Match was created, an entry with joined_at newer than the trigger's now
\* minus the TTL; created_at of the Match is that now.
C5_Step ==
  \A m \in MatchIds :
    (~IsSome(matches[m]) /\ IsSome(matches'[m]))
    => LET partner == matches'[m][1].players[2]
       IN  /\ IsSome(queue[partner])
           /\ queue[partner][1].joined_at >
                matches'[m][1].created_at - QUEUE_TTL_SECONDS

C5_PartnerWithinTtl == [][C5_Step]_vars

\* Reached: a Match was created while an entry exactly as old as the TTL
\* stayed queued, passed over as a partner.
C5_Witness ==
  \E m \in created, u \in Users :
    /\ u \notin playersOf(m)
    /\ IsSome(queue[u])
    /\ queue[u][1].joined_at = matches[m][1].created_at - QUEUE_TTL_SECONDS

\* C12: an invocation of the trigger for a player whose entry was already
\* consumed by a Match (a second delivery of the creation event, or a
\* transaction that lost its entry to another one) finds the entry absent and
\* returns: no step of it creates a Match or deletes a queue entry, whoever
\* else is waiting.
C12_Step ==
  \A p \in ProcIds :
    ( /\ procs[p].pc \in {"tx", "commit"}
      /\ matchesOf(procs[p].userId) # {}
      /\ procs'[p] # procs[p] )
    => /\ matches' = matches
       /\ queue' = queue
       /\ procs[p].pc = "tx" => procs'[p].pc = "done"
       /\ procs[p].pc = "commit" => procs'[p].pc = "tx"

C12_DuplicateTriggerNoOp == [][C12_Step]_vars

\* Reached: the trigger has run twice for one user, one Match holds that
\* user, and a third user who joined before the Match was created is still
\* waiting, within the TTL.
C12_Witness ==
  \E u \in Users, w \in Users :
    /\ procs[1].pc = "done" /\ procs[1].userId = u
    /\ procs[2].pc = "done" /\ procs[2].userId = u
    /\ Cardinality(matchesOf(u)) = 1
    /\ w # u
    /\ IsSome(queue[w])
    /\ queue[w][1].joined_at > now - QUEUE_TTL_SECONDS
    /\ \A m \in matchesOf(u) : queue[w][1].joined_at <= matches[m][1].created_at

\* C13: every Match the pairing transaction creates has a puzzle id "cls:n"
\* with n in 20 .. 302 and other than cls:37 and cls:51.
C13_PuzzleIdValid ==
  \A m \in created :
    /\ \E n \in 20 .. 302 : matches[m][1].puzzle_id = "cls:" \o ToString(n)
    /\ matches[m][1].puzzle_id \notin {"cls:37", "cls:51"}

\* Reached: a Match with the highest puzzle id.
C13_Witness == \E m \in created : matches[m][1].puzzle_id = "cls:302"

\* C14: for one joining user, two creation events handled less than 5
\* seconds apart, one after the other or concurrently, lead to at most one
\* alert: no two alerts for the same user come from handlers started less
\* than 5 seconds apart.
C14_OneAlertPerWindow ==
  \A i \in 1 .. Len(alerts), j \in 1 .. Len(alerts) :
    ( /\ i < j
      /\ alerts[i].userId = alerts[j].userId )
    => \/ alerts[j].handledAt - alerts[i].handledAt >= RATE_LIMIT_SECONDS
       \/ alerts[i].handledAt - alerts[j].handledAt >= RATE_LIMIT_SECONDS

\* C18: every Match pairs the two oldest waiting entries: when it is
\* created, no entry within the TTL that stays queued has an earlier
\* joined_at than either player of the Match.
C18_Step ==
  \A m \in MatchIds :
    (~IsSome(matches[m]) /\ IsSome(matches'[m]))
    => \A u \in Users :
         ( /\ IsSome(queue'[u])
           /\ queue'[u][1].joined_at >
                matches'[m][1].created_at - QUEUE_TTL_SECONDS )
         => \A i \in 1 .. 2 :
              queue[matches'[m][1].players[i]][1].joined_at
                <= queue'[u][1].joined_at

C18_OldestTwoPaired == [][C18_Step]_vars

\* C19: a queue entry is consumed by at most one Match: of two transactions
\* that selected the same partner entry only one commits a Match with it, and
\* no user is ever a player of two Matches.
C19_OneMatchPerEntry ==
  \A u \in Users : Cardinality(matchesOf(u)) <= 1

\* Reached: a Match exists whose partner a second transaction, of another
\* triggering player, has also selected and is about to commit with.
C19_Witness ==
  \E m \in created, p \in ProcIds :
    /\ procs[p].pc = "commit"
    /\ procs[p].partner = matches[m][1].players[2]
    /\ procs[p].userId \notin playersOf(m)
    /\ IsSome(queue[procs[p].userId])

\* C22: the triggering player (the first of the players) of every Match had,
\* when the Match was created, an entry with joined_at newer than the
\* trigger's now minus the TTL, like the partner.
C22_Step ==
  \A m \in MatchIds :
    (~IsSome(matches[m]) /\ IsSome(matches'[m]))
    => LET userId == matches'[m][1].players[1]
       IN  /\ IsSome(queue[userId])
           /\ queue[userId][1].joined_at >
                matches'[m][1].created_at - QUEUE_TTL_SECONDS

C22_TriggerWithinTtl == [][C22_Step]_vars

\* The users with an entry in the queue.
queued == {u \in Users : IsSome(queue[u])}

\* A run of the transaction function of p that finds its own entry and
\* another entry within the TTL goes on to commit, and a commit that is
\* accepted creates the Match of the two and deletes both entries.
pairsWhenPossible(p) ==
  /\ ( /\ procs[p].pc = "tx"
       /\ procs'[p] # procs[p]
       /\ IsSome(queue[procs[p].userId])
       /\ \E u \in queued \ {procs[p].userId} :
            queue[u][1].joined_at > procs[p].cutoff )
     => procs'[p].pc = "commit"
  /\ (procs[p].pc = "commit" /\ procs'[p].pc = "done")
     => /\ IsSome(matches'[p])
        /\ matches'[p][1].players = <<procs[p].userId, procs[p].partner>>
        /\ queue'[procs[p].userId] = None
        /\ queue'[procs[p].partner] = None

====
